---- MODULE Spec2Model ----
(***************************************************************************)
(* Model of src/logistic_regression.py: the cluster generator               *)
(* generate_ellipsoid_clusters, the classifier fit fit_logistic_regression  *)
(* and the sweep do_experiments.                                            *)
(*                                                                          *)
(* Floating-point values are records: a finite value is an exact rational   *)
(* n/d in lowest terms (k = "fin"), the two infinities are k = "inf" with   *)
(* sign n, and NaN is k = "nan".  Units: distances and data coordinates are *)
(* in hundredths, fitted weights are in units of 1e-8 (so that the epsilon  *)
(* of the slope subplot is the value 1), contour vertices and margin widths *)
(* are in thousandths.                                                      *)
(***************************************************************************)
EXTENDS Integers, Sequences, FiniteSets, TLC

VARIABLES
    \* ---- the global numpy random source and the last generator call
    rng,            \* state of np.random
    last_args,      \* arguments of the last generate_ellipsoid_clusters call
    last_X, last_y, \* what that call returned
    ref_args,       \* arguments of an earlier call kept for comparison
    ref_X, ref_y,   \* what that earlier call returned
    history,        \* what happened to the random source since that call was kept
    \* ---- do_experiments
    pc,             \* position in do_experiments
    start, end, step_num,
    shift_distances,
    n_rows,
    i,              \* enumerate index of the running iteration (1-based)
    beta0_list, beta1_list, beta2_list,
    slope_list, intercept_list,
    loss_list, margin_widths,
    sample_data,    \* dict: distance -> (X, y, model, beta0, beta1, beta2, min_distance)
    X, y, model,    \* locals of the running iteration
    min_distance,
    c1_paths, c0_paths,
    extraction,     \* how the try block at level 0.7 ended in this iteration
    panels,         \* the subplots of the first figure, in drawing order
    console,        \* printed diagnostics
    images,         \* files written by plt.savefig, in order
    slopes,         \* beta1_array / (beta2_array + epsilon)
    slope_plot,     \* the points handed to plt.plot for the slope subplot
    error           \* the exception propagating out of do_experiments, if any

genvars == <<rng, last_args, last_X, last_y, ref_args, ref_X, ref_y, history>>

sweepvars == <<pc, start, end, step_num, shift_distances, n_rows, i,
               beta0_list, beta1_list, beta2_list, slope_list, intercept_list,
               loss_list, margin_widths, sample_data, X, y, model, min_distance,
               c1_paths, c0_paths, extraction, panels, console, images,
               slopes, slope_plot, error>>

vars == <<genvars, sweepvars>>

(***************************************************************************)
(* Bounds of the model.                                                     *)
(***************************************************************************)
\* largest step_num a sweep is started with
MaxSteps == 2
\* n_samples of the generator calls made by the sweep (the code's default is 100)
SweepSamples == 2
\* largest n_samples of a direct generator call
MaxSamples == 2

\* line 11: the default cluster_std = 0.5, in hundredths
DefaultClusterStd == 50

(***************************************************************************)
(* Floating-point values.                                                   *)
(***************************************************************************)
Abs(x) == IF x < 0 THEN -x ELSE x

Sgn(x) == IF x < 0 THEN -1 ELSE IF x > 0 THEN 1 ELSE 0

RECURSIVE GCD(_, _)
GCD(a, b) == IF b = 0 THEN a ELSE GCD(b, a % b)

NaN == [k |-> "nan", n |-> 0, d |-> 0]

Inf(s) == [k |-> "inf", n |-> s, d |-> 0]

\* the finite value n/d (d # 0), in lowest terms with a positive denominator
Fin(n, d) ==
    LET g == GCD(Abs(n), Abs(d))
        s == IF d < 0 THEN -1 ELSE 1
    IN  [k |-> "fin", n |-> (s * n) \div g, d |-> (s * d) \div g]

IsNaN(a) == a.k = "nan"

IsInf(a) == a.k = "inf"

IsFinite(a) == a.k = "fin"

\* unary minus
FNeg(a) ==
    CASE a.k = "fin" -> Fin(-a.n, a.d)
      [] a.k = "inf" -> Inf(-a.n)
      [] OTHER -> NaN

\* a + b
FAdd(a, b) ==
    CASE IsNaN(a) \/ IsNaN(b) -> NaN
      [] IsInf(a) /\ IsInf(b) -> IF a.n = b.n THEN a ELSE NaN
      [] IsInf(a) -> a
      [] IsInf(b) -> b
      [] OTHER -> Fin(a.n * b.d + b.n * a.d, a.d * b.d)

\* a safe division that substitutes 0 for a zero divisor
FDivDefault(a, b) ==
    CASE IsNaN(a) \/ IsNaN(b) -> NaN
      [] IsInf(a) /\ IsInf(b) -> NaN
      [] IsInf(a) -> Inf(a.n * (IF b.n < 0 THEN -1 ELSE 1))
      [] IsInf(b) -> Fin(0, 1)
      [] b.n = 0 -> Fin(0, 1)
      [] OTHER -> Fin(a.n * b.d, a.d * b.n)

\* a / b on numpy float64 scalars and arrays: a zero divisor gives an
\* infinity, or NaN for 0/0, with a RuntimeWarning and no exception
FDiv(a, b) ==
    CASE IsNaN(a) \/ IsNaN(b) -> NaN
      [] IsInf(a) /\ IsInf(b) -> NaN
      [] IsInf(a) -> Inf(a.n * (IF b.n < 0 THEN -1 ELSE 1))
      [] IsInf(b) -> Fin(0, 1)
      [] b.n = 0 -> IF a.n = 0 THEN NaN ELSE Inf(Sgn(a.n))
      [] OTHER -> Fin(a.n * b.d, a.d * b.n)

(***************************************************************************)
(* The random source.                                                       *)
(***************************************************************************)
RngStates == 0 .. 15

\* the state np.random.seed(s) puts the source in
SeedState(s) == s % Cardinality(RngStates)

\* one draw advances the source
NextRand(r) == (5 * r + 3) % Cardinality(RngStates)

\* the standard normal deviate drawn in state r, as a small integer
Deviate(r) == (r % 3) - 1

\* a generator that draws without seeding
SeedSkipped(r) == r

\* line 12: np.random.seed(0) in a source that is in state r
SeedZero(r) == SeedState(0)

(***************************************************************************)
(* generate_ellipsoid_clusters                                              *)
(***************************************************************************)
\* np.random.multivariate_normal(mean=[1, 1], cov, size=n) from state r:
\* 2 deviates per point, combined linearly with the 1 : 0.8 structure of
\* the covariance matrix [[cs, 0.8 cs], [0.8 cs, cs]]
RECURSIVE MultivariateNormal(_, _, _)
MultivariateNormal(r, n, cs) ==
    IF n = 0 THEN [pts |-> <<>>, rng |-> r]
    ELSE LET r1 == NextRand(r)
             r2 == NextRand(r1)
             z1 == Deviate(r1)
             z2 == Deviate(r2)
             p  == <<Fin(100 + cs * z1, 1),
                     Fin(10 * 100 + cs * (8 * z1 + 6 * z2), 10)>>
             rest == MultivariateNormal(r2, n - 1, cs)
         IN  [pts |-> <<p>> \o rest.pts, rng |-> rest.rng]

\* X2 += shift_vector
Shift(pts, distance) ==
    [j \in 1 .. Len(pts) |-> <<FAdd(pts[j][1], distance), FAdd(pts[j][2], distance)>>]

\* labels that alternate instead of forming two blocks
AlternatingLabels(n) == [j \in 1 .. 2 * n |-> (j + 1) % 2]

\* lines 18, 26, 30: np.hstack((np.zeros(n), np.ones(n)))
Labels(n) == [j \in 1 .. n |-> 0] \o [j \in 1 .. n |-> 1]

\* the whole function, called with the random source in state r
generate_ellipsoid_clusters(r, distance, n_samples, cluster_std) ==
    LET r0 == SeedZero(r)
        d1 == MultivariateNormal(r0, n_samples, cluster_std)
        d2 == MultivariateNormal(d1.rng, n_samples, cluster_std)
    IN  [X |-> d1.pts \o Shift(d2.pts, distance),
         y |-> Labels(n_samples),
         rng |-> d2.rng]

(***************************************************************************)
(* Direct use of the generator: calls with any arguments, interleaved with  *)
(* other uses of the global random source.                                  *)
(***************************************************************************)
NoCall == <<>>

\* the value of `model` before the first fit
NoModel == [beta0 |-> NaN, beta1 |-> NaN, beta2 |-> NaN, loss |-> NaN]

GenDistances == {Fin(0, 1), Fin(25, 1), Fin(175, 2)}

GenClusterStds == {50, 100}

OtherSeeds == {1, 7}

SweepIdle ==
    /\ pc = "idle"
    /\ start = 0 /\ end = 0 /\ step_num = 0
    /\ shift_distances = <<>> /\ n_rows = 0 /\ i = 0
    /\ beta0_list = <<>> /\ beta1_list = <<>> /\ beta2_list = <<>>
    /\ slope_list = <<>> /\ intercept_list = <<>>
    /\ loss_list = <<>> /\ margin_widths = <<>>
    /\ sample_data = <<>>
    /\ X = <<>> /\ y = <<>> /\ model = NoModel
    /\ min_distance = [none |-> TRUE, v |-> 0]
    /\ c1_paths = [bound |-> FALSE, paths |-> <<>>]
    /\ c0_paths = [bound |-> FALSE, paths |-> <<>>]
    /\ extraction = "none"
    /\ panels = <<>> /\ console = <<>> /\ images = <<>>
    /\ slopes = <<>> /\ slope_plot = [x |-> <<>>, y |-> <<>>]
    /\ error = "none"

GenInit ==
    /\ rng \in RngStates
    /\ last_args = NoCall /\ last_X = <<>> /\ last_y = <<>>
    /\ ref_args = NoCall /\ ref_X = <<>> /\ ref_y = <<>>
    /\ history = "none"
    /\ SweepIdle

\* a caller runs X, y = generate_ellipsoid_clusters(distance, n_samples, cluster_std)
CallGenerator ==
    \E distance \in GenDistances, n_samples \in 0 .. MaxSamples,
       cluster_std \in GenClusterStds :
        LET r == generate_ellipsoid_clusters(rng, distance, n_samples, cluster_std)
        IN  /\ rng' = r.rng
            /\ last_args' = <<distance, n_samples, cluster_std>>
            /\ last_X' = r.X
            /\ last_y' = r.y
            /\ history' = IF history = "none" THEN "none"
                          ELSE IF <<distance, n_samples, cluster_std>> # ref_args
                               THEN "disturbed"
                          ELSE IF history = "kept" THEN "kept" ELSE "recalled"
            /\ UNCHANGED <<ref_args, ref_X, ref_y, sweepvars>>

\* the caller keeps the result of the last call to compare later ones with
KeepResult ==
    /\ last_args # NoCall
    /\ ref_args' = last_args /\ ref_X' = last_X /\ ref_y' = last_y
    /\ history' = "kept"
    /\ UNCHANGED <<rng, last_args, last_X, last_y, sweepvars>>

\* some other code draws from np.random
OtherDraw ==
    /\ rng' = NextRand(rng)
    /\ history' = IF history = "none" THEN "none" ELSE "disturbed"
    /\ UNCHANGED <<last_args, last_X, last_y, ref_args, ref_X, ref_y, sweepvars>>

\* some other code seeds np.random
OtherSeed ==
    /\ \E s \in OtherSeeds : rng' = SeedState(s)
    /\ history' = IF history = "none" THEN "none" ELSE "disturbed"
    /\ UNCHANGED <<last_args, last_X, last_y, ref_args, ref_X, ref_y, sweepvars>>

GenNext == CallGenerator \/ KeepResult \/ OtherDraw \/ OtherSeed

SpecGen == GenInit /\ [][GenNext]_vars

(***************************************************************************)
(* The sweep: do_experiments(start, end, step_num).                         *)
(***************************************************************************)
\* (start, end) pairs a sweep is started with, in hundredths
SweepRanges == {<<25, 200>>, <<100, 100>>}

\* np.linspace without its endpoint, as np.arange would space the values
LinspaceOpen(a, b, num) ==
    [j \in 1 .. num |-> Fin(a * num + (j - 1) * (b - a), num)]

\* line 43: np.linspace(start, end, step_num), endpoint included
Linspace(a, b, num) ==
    [j \in 1 .. num |->
        IF num = 1 THEN Fin(a, 1)
        ELSE Fin(a * (num - 1) + (j - 1) * (b - a), num - 1)]

\* the fitted models LogisticRegression().fit can return; `loss` is the value
\* log_loss gives for the model on the data it was fitted to
Models ==
    { [beta0 |-> Fin(-3, 1), beta1 |-> Fin(2, 1), beta2 |-> Fin(1, 1),  loss |-> Fin(1, 2)],
      [beta0 |-> Fin(0, 1),  beta1 |-> Fin(1, 1), beta2 |-> Fin(0, 1),  loss |-> Fin(2, 3)],
      [beta0 |-> Fin(2, 1),  beta1 |-> Fin(1, 1), beta2 |-> Fin(-1, 1), loss |-> Fin(1, 3)],
      [beta0 |-> Fin(1, 1),  beta1 |-> Fin(0, 1), beta2 |-> Fin(-1, 1), loss |-> Fin(1, 4)] }

\* lines 37-39: what fit_logistic_regression returns for fitted model m
fit_logistic_regression(m) == <<m, m.beta0, m.beta1, m.beta2>>

\* an exception handler around the fit that lets the loop go on
OnFitErrorContinue == "loop"

\* lines 56-58: nothing catches an exception of the fit; it leaves do_experiments
OnFitError == "aborted"

\* a loop that stops before the last distance
LoopDoneEarly(k, n) == k >= n - 1

\* line 55: the for loop is over once every distance has been taken
LoopDone(k, n) == k >= n

SweepInit ==
    /\ rng \in {0, 5}
    /\ last_args = NoCall /\ last_X = <<>> /\ last_y = <<>>
    /\ ref_args = NoCall /\ ref_X = <<>> /\ ref_y = <<>>
    /\ history = "none"
    /\ pc = "start"
    /\ \E r \in SweepRanges : start = r[1] /\ end = r[2]
    /\ step_num \in 1 .. MaxSteps
    /\ shift_distances = <<>> /\ n_rows = 0 /\ i = 0
    /\ beta0_list = <<>> /\ beta1_list = <<>> /\ beta2_list = <<>>
    /\ slope_list = <<>> /\ intercept_list = <<>>
    /\ loss_list = <<>> /\ margin_widths = <<>>
    /\ sample_data = <<>>
    /\ X = <<>> /\ y = <<>> /\ model = NoModel
    /\ min_distance = [none |-> TRUE, v |-> 0]
    /\ c1_paths = [bound |-> FALSE, paths |-> <<>>]
    /\ c0_paths = [bound |-> FALSE, paths |-> <<>>]
    /\ extraction = "none"
    /\ panels = <<>> /\ console = <<>> /\ images = <<>>
    /\ slopes = <<>> /\ slope_plot = [x |-> <<>>, y |-> <<>>]
    /\ error = "none"

\* lines 43-52
Setup ==
    /\ pc = "start"
    /\ shift_distances' = Linspace(start, end, step_num)
    /\ beta0_list' = <<>> /\ beta1_list' = <<>> /\ beta2_list' = <<>>
    /\ slope_list' = <<>> /\ intercept_list' = <<>>
    /\ loss_list' = <<>> /\ margin_widths' = <<>>
    /\ sample_data' = <<>>
    /\ n_rows' = (step_num + 2 - 1) \div 2
    /\ pc' = "loop"
    /\ UNCHANGED <<genvars, start, end, step_num, i, X, y, model, min_distance,
                   c1_paths, c0_paths, extraction, panels, console, images,
                   slopes, slope_plot, error>>

\* lines 55-61, the fit succeeding: next distance, dataset, fit, the weights recorded
GenerateAndFit ==
    /\ pc = "loop"
    /\ ~LoopDone(i, Len(shift_distances))
    /\ LET distance == shift_distances[i + 1]
           g == generate_ellipsoid_clusters(rng, distance, SweepSamples, DefaultClusterStd)
       IN  /\ i' = i + 1
           /\ rng' = g.rng
           /\ last_args' = <<distance, SweepSamples, DefaultClusterStd>>
           /\ last_X' = g.X /\ last_y' = g.y
           /\ X' = g.X /\ y' = g.y
           /\ \E m \in Models :
                LET f == fit_logistic_regression(m)
                IN  /\ model' = f[1]
                    /\ beta0_list' = Append(beta0_list, f[2])
                    /\ beta1_list' = Append(beta1_list, f[3])
                    /\ beta2_list' = Append(beta2_list, f[4])
    /\ pc' = "boundary"
    /\ UNCHANGED <<ref_args, ref_X, ref_y, history, start, end, step_num, shift_distances,
                   n_rows, slope_list, intercept_list, loss_list, margin_widths,
                   sample_data, min_distance, c1_paths, c0_paths, extraction,
                   panels, console, images, slopes, slope_plot, error>>

\* lines 55-58, model.fit raising: the exception propagates
FitRaises ==
    /\ pc = "loop"
    /\ ~LoopDone(i, Len(shift_distances))
    /\ LET distance == shift_distances[i + 1]
           g == generate_ellipsoid_clusters(rng, distance, SweepSamples, DefaultClusterStd)
       IN  /\ i' = i + 1
           /\ rng' = g.rng
           /\ last_args' = <<distance, SweepSamples, DefaultClusterStd>>
           /\ last_X' = g.X /\ last_y' = g.y
           /\ X' = g.X /\ y' = g.y
    /\ error' = "fit"
    /\ pc' = OnFitError
    /\ UNCHANGED <<ref_args, ref_X, ref_y, history, start, end, step_num, shift_distances,
                   n_rows, model, beta0_list, beta1_list, beta2_list,
                   slope_list, intercept_list, loss_list, margin_widths,
                   sample_data, min_distance, c1_paths, c0_paths, extraction,
                   panels, console, images, slopes, slope_plot>>

\* lines 63-70: slope, intercept and loss of this distance
Boundary ==
    /\ pc = "boundary"
    /\ slope_list' = Append(slope_list, FDiv(FNeg(model.beta1), model.beta2))
    /\ intercept_list' = Append(intercept_list, FDiv(FNeg(model.beta0), model.beta2))
    /\ loss_list' = Append(loss_list, model.loss)
    /\ pc' = "margin"
    /\ UNCHANGED <<genvars, start, end, step_num, shift_distances, n_rows, i,
                   beta0_list, beta1_list, beta2_list, margin_widths, sample_data,
                   X, y, model, min_distance, c1_paths, c0_paths, extraction,
                   panels, console, images, slopes, slope_plot, error>>

(***************************************************************************)
(* Margin width at the 0.7 level (lines 89-109).                            *)
(***************************************************************************)
\* contour paths are sequences of vertices, in thousandths
PathA == << <<0, 0>>, <<30, 0>> >>

PathB == << <<33, 44>>, <<60, 44>> >>

PathC == << <<30, 0>>, <<70, 10>> >>

\* a path without vertices
PathNone == << >>

\* what class_1_contour.collections[0].get_paths() can return
ClassOnePathLists == { <<>>, <<PathNone>>, <<PathA>> }

\* what class_0_contour.collections[0].get_paths() can return
ClassZeroPathLists == { <<>>, <<PathB>>, <<PathB, PathC>> }

\* lines 100-101: np.concatenate([p.vertices for p in paths])
RECURSIVE Concatenate(_)
Concatenate(paths) ==
    IF paths = <<>> THEN <<>> ELSE Head(paths) \o Concatenate(Tail(paths))

\* the square root, rounded to the nearest representable value
Sqrt(n) ==
    CHOOSE r \in 0 .. n : 4 * r * r - 4 * r + 1 <= 4 * n /\ 4 * n < 4 * r * r + 4 * r + 1

\* one entry of cdist(c1_vertices, c0_vertices): the Euclidean distance
EuclideanDistance(p, q) ==
    LET dx == Abs(p[1] - q[1])
        dy == Abs(p[2] - q[2])
    IN  IF dx = 0 THEN dy ELSE IF dy = 0 THEN dx ELSE Sqrt(dx * dx + dy * dy)

\* lines 102-103: np.min(cdist(v1, v0)), both vertex arrays non-empty
MinOfCdist(v1, v0) ==
    LET ds == {EuclideanDistance(v1[a], v0[b]) : a \in 1 .. Len(v1), b \in 1 .. Len(v0)}
    IN  CHOOSE m \in ds : \A o \in ds : m <= o

None == [none |-> TRUE, v |-> 0]

Some(v) == [none |-> FALSE, v |-> v]

\* an else branch that records a width of zero
ZeroRegionWidth == Fin(0, 1)

\* line 106: what is recorded when a region has no paths
EmptyRegionWidth == NaN

\* an except branch that prints nothing
LogNothing(log, distance, exc) == log

\* line 109: print(f"Error calculating margin width at distance {distance}: {e}")
LogError(log, distance, exc) == Append(log, [distance |-> distance, exc |-> exc])

\* line 97 raising: this matplotlib has no ContourSet.collections
ExtractionRaises ==
    /\ pc = "margin"
    /\ min_distance' = None
    /\ margin_widths' = Append(margin_widths, NaN)
    /\ console' = LogError(console, shift_distances[i], "AttributeError")
    /\ extraction' = "AttributeError"
    /\ pc' = "panel"
    /\ UNCHANGED <<genvars, start, end, step_num, shift_distances, n_rows, i,
                   beta0_list, beta1_list, beta2_list, slope_list, intercept_list,
                   loss_list, sample_data, X, y, model, c1_paths, c0_paths,
                   panels, images, slopes, slope_plot, error>>

\* lines 89-109 with both path lists obtained
ExtractMargin ==
    /\ pc = "margin"
    /\ \E p1 \in ClassOnePathLists, p0 \in ClassZeroPathLists :
        LET v1 == Concatenate(p1)
            v0 == Concatenate(p0)
        IN  /\ c1_paths' = [bound |-> TRUE, paths |-> p1]
            /\ c0_paths' = [bound |-> TRUE, paths |-> p0]
            /\ IF p1 # <<>> /\ p0 # <<>>
               THEN IF v1 = <<>> \/ v0 = <<>>
                    THEN \* np.min of a zero-size array raises ValueError
                         /\ min_distance' = None
                         /\ margin_widths' = Append(margin_widths, NaN)
                         /\ console' = LogError(console, shift_distances[i], "ValueError")
                         /\ extraction' = "ValueError"
                    ELSE /\ min_distance' = Some(MinOfCdist(v1, v0))
                         /\ margin_widths' = Append(margin_widths, Fin(MinOfCdist(v1, v0), 1))
                         /\ console' = console
                         /\ extraction' = "done"
               ELSE /\ min_distance' = None
                    /\ margin_widths' = Append(margin_widths, EmptyRegionWidth)
                    /\ console' = console
                    /\ extraction' = "done"
    /\ pc' = "panel"
    /\ UNCHANGED <<genvars, start, end, step_num, shift_distances, n_rows, i,
                   beta0_list, beta1_list, beta2_list, slope_list, intercept_list,
                   loss_list, sample_data, X, y, model,
                   panels, images, slopes, slope_plot, error>>

(***************************************************************************)
(* The panel of one distance (lines 111-126).                               *)
(***************************************************************************)
\* f"{v:.2f}" of a value in thousandths: the number of hundredths shown
Format2f(v) == (v + 5) \div 10

\* line 117: `if min_distance` is the truth value of the object
Truthy(md) == ~md.none /\ md.v # 0

\* line 117
MarginText(md) ==
    IF Truthy(md) THEN [na |-> FALSE, shown |-> Format2f(md.v)]
    ELSE [na |-> TRUE, shown |-> 0]

RenderPanel ==
    /\ pc = "panel"
    /\ panels' = Append(panels, [slot |-> i, margin_text |-> MarginText(min_distance)])
    /\ sample_data' =
         [d \in DOMAIN sample_data \cup {shift_distances[i]} |->
            IF d = shift_distances[i]
            THEN [X |-> X, y |-> y, model |-> model, beta0 |-> model.beta0,
                  beta1 |-> model.beta1, beta2 |-> model.beta2,
                  min_distance |-> min_distance]
            ELSE sample_data[d]]
    /\ pc' = "loop"
    /\ UNCHANGED <<genvars, start, end, step_num, shift_distances, n_rows, i,
                   beta0_list, beta1_list, beta2_list, slope_list, intercept_list,
                   loss_list, margin_widths, X, y, model, min_distance,
                   c1_paths, c0_paths, extraction, console, images, slopes,
                   slope_plot, error>>

(***************************************************************************)
(* After the loop (lines 128-197).                                          *)
(***************************************************************************)
\* lines 128-129
SaveDataset ==
    /\ pc = "loop"
    /\ LoopDone(i, Len(shift_distances))
    /\ images' = Append(images, "dataset.png")
    /\ pc' = "trends"
    /\ UNCHANGED <<genvars, start, end, step_num, shift_distances, n_rows, i,
                   beta0_list, beta1_list, beta2_list, slope_list, intercept_list,
                   loss_list, margin_widths, sample_data, X, y, model, min_distance,
                   c1_paths, c0_paths, extraction, panels, console, slopes,
                   slope_plot, error>>

\* line 162: epsilon = 1e-8
Epsilon == Fin(1, 1)

\* a filter that drops NaN only
ValidNotNaN(s) == ~IsNaN(s)

\* line 166: ~np.isnan(slopes) & ~np.isinf(slopes), per element
Valid(s) == ~IsNaN(s) /\ ~IsInf(s)

\* boolean-mask indexing a[mask]
RECURSIVE MaskSelect(_, _)
MaskSelect(a, mask) ==
    IF a = <<>> \/ mask = <<>> THEN <<>>
    ELSE (IF Head(mask) THEN <<Head(a)>> ELSE <<>>) \o MaskSelect(Tail(a), Tail(mask))

\* lines 131-197: the trends figure, with the slope subplot of lines 157-172
PlotTrends ==
    /\ pc = "trends"
    /\ LET s == [k \in 1 .. Len(beta1_list) |->
                    FDiv(beta1_list[k], FAdd(beta2_list[k], Epsilon))]
           valid_indices == [k \in 1 .. Len(s) |-> Valid(s[k])]
       IN  /\ slopes' = s
           /\ slope_plot' = [x |-> MaskSelect(shift_distances, valid_indices),
                             y |-> MaskSelect(s, valid_indices)]
    /\ images' = Append(images, "parameters_vs_shift_distance.png")
    /\ pc' = "done"
    /\ UNCHANGED <<genvars, start, end, step_num, shift_distances, n_rows, i,
                   beta0_list, beta1_list, beta2_list, slope_list, intercept_list,
                   loss_list, margin_widths, sample_data, X, y, model, min_distance,
                   c1_paths, c0_paths, extraction, panels, console, error>>

Next ==
    \/ Setup
    \/ GenerateAndFit
    \/ FitRaises
    \/ Boundary
    \/ ExtractionRaises
    \/ ExtractMargin
    \/ RenderPanel
    \/ SaveDataset
    \/ PlotTrends

Spec == SweepInit /\ [][Next]_vars

(***************************************************************************)
(* Properties of the generator, checked under SpecGen.                      *)
(***************************************************************************)
\* C2: every generator call returns 2 * n_samples points and a label vector
\* with label 0 at positions 1 .. n_samples and label 1 at positions
\* n_samples + 1 .. 2 * n_samples, so each label is carried by exactly
\* n_samples points.
C2_LabelBalance ==
    last_args # NoCall =>
        LET n == last_args[2]
        IN  /\ Len(last_X) = 2 * n
            /\ Len(last_y) = 2 * n
            /\ \A j \in 1 .. n : last_y[j] = 0
            /\ \A j \in n + 1 .. 2 * n : last_y[j] = 1
            /\ Cardinality({j \in 1 .. Len(last_y) : last_y[j] = 0}) = n
            /\ Cardinality({j \in 1 .. Len(last_y) : last_y[j] = 1}) = n

C2_Witness ==
    /\ last_args # NoCall
    /\ last_args[2] = MaxSamples
    /\ last_args[1] # Fin(0, 1)
    /\ Len(last_y) = 2 * MaxSamples

\* C3: a generator call with the arguments of an earlier call returns the
\* dataset and labels that earlier call returned, whatever generator calls,
\* draws or seedings happened in between.
C3_Deterministic ==
    (last_args # NoCall /\ last_args = ref_args) =>
        (last_X = ref_X /\ last_y = ref_y)

C3_Witness ==
    /\ history = "recalled"
    /\ last_args = ref_args
    /\ last_args[2] = MaxSamples
    /\ last_X = ref_X
    /\ rng # SeedState(0)

(***************************************************************************)
(* Properties of the sweep, checked under Spec.                             *)
(***************************************************************************)
SevenLists ==
    <<beta0_list, beta1_list, beta2_list, slope_list, intercept_list,
      loss_list, margin_widths>>

\* the entries of position k are those of the iteration that stored sample_data[d]
RecordedAt(k, d) ==
    LET r == sample_data[d]
    IN  /\ beta0_list[k] = r.beta0 /\ beta1_list[k] = r.beta1 /\ beta2_list[k] = r.beta2
        /\ loss_list[k] = r.model.loss
        /\ slope_list[k] = FDiv(FNeg(r.beta1), r.beta2)
        /\ intercept_list[k] = FDiv(FNeg(r.beta0), r.beta2)
        /\ IF r.min_distance.none THEN IsNaN(margin_widths[k])
           ELSE margin_widths[k] = Fin(r.min_distance.v, 1)

\* C1: a completed sweep leaves exactly step_num entries in each of the seven
\* result sequences, the k-th made in the iteration of the k-th of step_num
\* evenly spaced distances from start to end inclusive; for 0.25, 2.0, 8 the
\* distances are 0.25, 0.5, ..., 2.0 in that order.
C1_OneRecordPerDistance ==
    /\ Linspace(25, 200, 8) =
         <<Fin(25, 1), Fin(50, 1), Fin(75, 1), Fin(100, 1),
           Fin(125, 1), Fin(150, 1), Fin(175, 1), Fin(200, 1)>>
    /\ pc = "done" =>
         /\ \A q \in 1 .. 7 : Len(SevenLists[q]) = step_num
         /\ Len(shift_distances) = step_num
         /\ Len(panels) = step_num
         /\ \A k \in 1 .. step_num :
              LET d == shift_distances[k]
              IN  /\ IsFinite(d)
                  /\ IF step_num = 1 THEN d = Fin(start, 1)
                     ELSE d.n * (step_num - 1) =
                            d.d * (start * (step_num - 1) + (k - 1) * (end - start))
                  /\ panels[k].slot = k
                  /\ d \in DOMAIN sample_data
                  /\ (\A k2 \in k + 1 .. step_num : shift_distances[k2] # d)
                        => RecordedAt(k, d)

C1_Witness ==
    /\ pc = "done"
    /\ step_num = MaxSteps
    /\ start # end
    /\ Len(margin_widths) = MaxSteps
    /\ beta0_list[1] # beta0_list[MaxSteps]

PathsObtained == extraction \in {"done", "ValueError"}

\* C4: when the class-1 or the class-0 region at the 0.7 level has no paths,
\* the width recorded for the distance is NaN, no error is raised and the
\* sweep goes on.
C4_EmptyRegionRecordsNaN ==
    (pc = "panel" /\ PathsObtained /\ (c1_paths.paths = <<>> \/ c0_paths.paths = <<>>)) =>
        /\ Len(margin_widths) = i
        /\ IsNaN(margin_widths[i])
        /\ error = "none"
        /\ ENABLED RenderPanel

C4_Witness ==
    /\ pc = "panel" /\ PathsObtained
    /\ c1_paths.paths = <<>> /\ c0_paths.paths # <<>>
    /\ i = 1 /\ step_num > 1
    /\ IsNaN(margin_widths[i])

\* C5 as stated: every distance whose width is recorded as NaN, the case of
\* empty path lists included, has a diagnostic message on the console.
C5_EveryMissingWidthLogged ==
    \A k \in 1 .. Len(margin_widths) :
        IsNaN(margin_widths[k]) =>
            \E j \in 1 .. Len(console) : console[j].distance = shift_distances[k]

\* C5 amended: the step that records the width logs one message for the
\* distance exactly when the extraction raised an exception, and then records
\* NaN; an empty path list records NaN without a message; the sweep goes on
\* in both cases.
C5_RaisedExtractionLogged ==
    [][(pc = "margin" /\ pc' # "margin") =>
          /\ pc' = "panel" /\ error' = "none"
          /\ IF extraction' \in {"AttributeError", "ValueError"}
             THEN /\ console' = Append(console, [distance |-> shift_distances[i],
                                                 exc |-> extraction'])
                  /\ margin_widths' = Append(margin_widths, NaN)
             ELSE console' = console]_vars

C5_Witness ==
    /\ pc = "panel"
    /\ extraction = "ValueError"
    /\ Len(console) = 1
    /\ console[1].distance = shift_distances[i]
    /\ IsNaN(margin_widths[i])

\* C6: once the fit has raised, the sweep is over: nothing of the failing or
\* of a later distance is recorded, no image is written and no step follows.
C6_FitFailureAborts ==
    error = "fit" =>
        /\ pc = "aborted"
        /\ images = <<>>
        /\ \A q \in 1 .. 7 : Len(SevenLists[q]) = i - 1
        /\ Len(panels) = i - 1
        /\ ~ENABLED Next

C6_Witness ==
    /\ error = "fit"
    /\ i = 2
    /\ Len(beta0_list) = 1
    /\ step_num = 2

\* C7: a fitted weight-x2 of exactly zero leaves a non-finite slope and a
\* non-finite intercept in the result sequences.
C7_ZeroWeightUndefined ==
    \A k \in 1 .. Len(slope_list) :
        beta2_list[k] = Fin(0, 1) =>
            /\ ~IsFinite(slope_list[k])
            /\ ~IsFinite(intercept_list[k])

C7_Witness ==
    /\ pc = "done"
    /\ \E k \in 1 .. Len(slope_list) :
         /\ beta2_list[k] = Fin(0, 1)
         /\ IsInf(slope_list[k])
         /\ IsNaN(intercept_list[k])

\* C8: images are written only after all step_num iterations, the per-distance
\* figure first and the trends figure second; a completed sweep wrote both.
C8_ImagesAfterSweep ==
    /\ images \in { <<>>, <<"dataset.png">>,
                    <<"dataset.png", "parameters_vs_shift_distance.png">> }
    /\ images # <<>> =>
         /\ pc \in {"trends", "done"}
         /\ i = step_num
         /\ Len(panels) = step_num
         /\ \A q \in 1 .. 7 : Len(SevenLists[q]) = step_num
    /\ pc = "done" => Len(images) = 2

C8_Witness ==
    /\ pc = "done"
    /\ step_num = MaxSteps
    /\ images = <<"dataset.png", "parameters_vs_shift_distance.png">>

\* the indexes of the distances whose ratio is finite
Kept == {k \in 1 .. Len(beta1_list) :
            IsFinite(FDiv(beta1_list[k], FAdd(beta2_list[k], Fin(1, 1))))}

\* C9: the slope subplot holds weight-x1 / (weight-x2 + epsilon) of exactly
\* the distances whose ratio is finite, in order.
C9_SlopeSubplotFinite ==
    pc = "done" =>
        /\ Len(slope_plot.x) = Cardinality(Kept)
        /\ Len(slope_plot.y) = Cardinality(Kept)
        /\ \A j \in 1 .. Len(slope_plot.y) :
             LET k == CHOOSE k \in Kept : Cardinality({m \in Kept : m <= k}) = j
             IN  /\ IsFinite(slope_plot.y[j])
                 /\ slope_plot.y[j] = FDiv(beta1_list[k], FAdd(beta2_list[k], Fin(1, 1)))
                 /\ slope_plot.x[j] = shift_distances[k]

C9_Witness ==
    /\ pc = "done"
    /\ step_num = MaxSteps
    /\ Len(slope_plot.y) = 1
    /\ \E k \in 1 .. step_num : IsInf(slopes[k])

====
